---- MODULE Spec2Model ----
(***************************************************************************)
(* Model of node_server/verify_sig.py: PhysaCIConfig (configuration load   *)
(* and node_sig_key lookup) and VerifySig.verify_signature (HTTP Signature *)
(* verification).                                                          *)
(*                                                                         *)
(* Python str values are TLA+ strings; TLC evaluates Len, \o and SubSeq on *)
(* them, so headers are parsed character by character as the code does.    *)
(* Python bytes values are records [type |-> "bytes", val |-> <<ints>>].   *)
(* A call either returns or raises: an outcome is a record with kind       *)
(* "return" (value, and the warning logged just before it) or "raise"      *)
(* (the exception's class name).                                           *)
(***************************************************************************)
EXTENDS Integers, Sequences, FiniteSets, TLC

(***************************************************************************)
(* Bounds                                                                  *)
(***************************************************************************)
\* number of request-handling threads that may be inside verify_signature
NCalls == 2

(***************************************************************************)
(* Python values                                                           *)
(***************************************************************************)
\* Python values carry their type, so that values of different types compare
\* unequal (as in Python) instead of being incomparable
None == [type |-> "NoneType"]
Str(s) == [type |-> "str", v |-> s]
Bytes(seq) == [type |-> "bytes", val |-> seq]
Path(s) == [type |-> "Path", v |-> s]

\* how a call ends: it returns a value or raises an exception
Ok(value) == [kind |-> "ok", value |-> value]
Raise(exc) == [kind |-> "raise", exc |-> exc]

\* a dict: a function from keys to values; dict.get(key) is None if absent
EmptyDict == <<>>
DictGet(d, key) == IF key \in DOMAIN d THEN d[key] ELSE None
DictSet(d, key, value) == (key :> value) @@ d

\* s[i] for a str, 1-based
Ch(s, i) == SubSeq(s, i, i)

\* str.startswith(prefix)
StartsWith(s, prefix) ==
    /\ Len(s) >= Len(prefix)
    /\ SubSeq(s, 1, Len(prefix)) = prefix

\* s[n:] (n >= 0): the empty string when n >= len(s)
SliceFrom(s, n) == IF n >= Len(s) THEN "" ELSE SubSeq(s, n + 1, Len(s))

\* index of the first occurrence of the character c in s at or after i, 0 if none
IndexFrom(s, c, i) ==
    LET hits == {k \in i..Len(s) : Ch(s, k) = c}
    IN  IF hits = {} THEN 0
        ELSE CHOOSE k \in hits : \A h \in hits : k <= h

\* s.split(sep) for a one-character separator: always at least one element
RECURSIVE Split(_, _)
Split(s, sep) ==
    LET k == IndexFrom(s, sep, 1)
    IN  IF k = 0 THEN <<s>>
        ELSE <<SubSeq(s, 1, k - 1)>> \o Split(SliceFrom(s, k), sep)

UpperCase == "ABCDEFGHIJKLMNOPQRSTUVWXYZ"
LowerCase == "abcdefghijklmnopqrstuvwxyz"

\* str.lower() on ASCII text
RECURSIVE Lower(_)
Lower(s) ==
    IF Len(s) = 0 THEN ""
    ELSE LET c == Ch(s, 1)
             k == IndexFrom(UpperCase, c, 1)
         IN  (IF k = 0 THEN c ELSE Ch(LowerCase, k)) \o Lower(SliceFrom(s, 1))

\* the printable ASCII characters with code points 32..95 and 97..126, in
\* order (the grave accent, 96, cannot be written in a TLA+ string and occurs
\* in no header the model builds)
Ascii32to95 ==
    " !\"#$%&'(" \o ")*+,-./0123456789:;<=>?@ABCDEFGHIJKLMNOPQRSTUVWXYZ[\\]^_"
Ascii97to126 == "abcdefghijklmnopqrstuvwxyz{|}~"

\* ord(c) for the characters the model uses
Ord(c) ==
    IF c = "\n" THEN 10
    ELSE IF IndexFrom(Ascii32to95, c, 1) > 0
         THEN 31 + IndexFrom(Ascii32to95, c, 1)
         ELSE 96 + IndexFrom(Ascii97to126, c, 1)

\* str.encode(): UTF-8 of ASCII text is one byte per character
Encode(s) == Bytes([i \in 1..Len(s) |-> Ord(Ch(s, i))])

(***************************************************************************)
(* __parse_sig_elements                                                    *)
(***************************************************************************)
NoNewline(s) == IndexFrom(s, "\n", 1) = 0

\* The pairs <<i, j>> at which r'^(.+)\=\"(.+)"' can match element: the key is
\* element[1..i-1], =" sits at i, i+1, the value is element[i+2..j-1] and the
\* closing quote is at j; '.' matches every character but a newline.
ElementMatches(element) ==
    {m \in (2..Len(element)) \X (4..Len(element)) :
        /\ Ch(element, m[1]) = "="
        /\ Ch(element, m[1] + 1) = "\""
        /\ m[2] >= m[1] + 3
        /\ Ch(element, m[2]) = "\""
        /\ NoNewline(SubSeq(element, 1, m[2]))}

\* re.search(r'^(.+)\=\"(.+)"', element): both groups are greedy, the first
\* group takes precedence. None when nothing matches.
ReSearch(element) ==
    LET ms == ElementMatches(element)
    IN  IF ms = {} THEN None
        ELSE LET i == CHOOSE i \in {m[1] : m \in ms} :
                          \A m \in ms : m[1] <= i
                 j == CHOOSE j \in {m[2] : m \in {n \in ms : n[1] = i}} :
                          \A m \in ms : m[1] = i => m[2] <= j
             IN  [type |-> "Match",
                  group1 |-> SubSeq(element, 1, i - 1),
                  group2 |-> SubSeq(element, i + 2, j - 1)]

\* the for loop of __parse_sig_elements from element i on
RECURSIVE ParseFrom(_, _, _)
ParseFrom(signature, i, sig_elements) ==
    IF i > Len(signature) THEN sig_elements
    ELSE LET element_re == ReSearch(signature[i])
         IN  ParseFrom(signature, i + 1,
                 IF element_re # None
                 THEN DictSet(sig_elements, element_re.group1,
                              Str(element_re.group2))
                 ELSE sig_elements)

parse_sig_elements(signature) == ParseFrom(signature, 1, EmptyDict)

(***************************************************************************)
(* base64 and HMAC                                                         *)
(***************************************************************************)
B64Alphabet ==
    "ABCDEFGHIJKLMNOPQRSTUVWXYZabcdefghijklmnopqrstuvwxyz0123456789+/"

\* the bytes of a run of sextets q: 4 sextets give 3 bytes, a trailing run of
\* 2 gives 1 byte and of 3 gives 2 bytes
SextetsToBytes(q) ==
    LET n == (Len(q) \div 4) * 3
             + (IF Len(q) % 4 = 0 THEN 0 ELSE (Len(q) % 4) - 1)
    IN  [k \in 1..n |->
            LET g == 4 * ((k - 1) \div 3)
            IN  CASE (k - 1) % 3 = 0 -> q[g + 1] * 4 + (q[g + 2] \div 16)
                  [] (k - 1) % 3 = 1 -> (q[g + 2] % 16) * 16 + (q[g + 3] \div 4)
                  [] (k - 1) % 3 = 2 -> (q[g + 3] % 4) * 64 + q[g + 4]]

\* binascii.a2b_base64 in its default, non-strict mode. Characters outside
\* the alphabet are skipped. At a '=' with quad_pos >= 2 (quad_pos: the data
\* characters read so far, modulo 4) that completes the padding (pads: the '='
\* read since the last data character) the data ends there; data characters
\* left over at the end of the input raise binascii.Error.
A2bBase64(s) ==
    LET IsData(k) == IndexFrom(B64Alphabet, Ch(s, k), 1) > 0
        DataBefore(k) == {d \in 1..(k - 1) : IsData(d)}
        quad_pos(k) == Cardinality(DataBefore(k)) % 4
        pads(k) == Cardinality({e \in 1..k :
                       /\ Ch(s, e) = "="
                       /\ \A d \in DataBefore(k) : d < e})
        stops == {k \in 1..Len(s) :
                     /\ Ch(s, k) = "="
                     /\ quad_pos(k) >= 2
                     /\ quad_pos(k) + pads(k) >= 4}
        end == IF stops = {} THEN Len(s) + 1
               ELSE CHOOSE k \in stops : \A h \in stops : k <= h
        chars == [k \in 1..(end - 1) |-> Ch(s, k)]
        data == SelectSeq(chars, LAMBDA c : IndexFrom(B64Alphabet, c, 1) > 0)
        sextets == [k \in 1..Len(data) |-> IndexFrom(B64Alphabet, data[k], 1) - 1]
    IN  IF stops = {} /\ Len(data) % 4 # 0 THEN Raise("binascii.Error")
        ELSE Ok(Bytes(SextetsToBytes(sextets)))

\* base64.b64decode(s) of a str
b64decode(s) == A2bBase64(s.v)

\* base64.b64encode, used by the signing client to build the header
RECURSIVE B64EncodeSeq(_)
B64EncodeSeq(b) ==
    LET c(k) == Ch(B64Alphabet, k + 1)
    IN  IF Len(b) = 0 THEN ""
        ELSE IF Len(b) = 1
        THEN c(b[1] \div 4) \o c((b[1] % 4) * 16) \o "=="
        ELSE IF Len(b) = 2
        THEN c(b[1] \div 4) \o c((b[1] % 4) * 16 + (b[2] \div 16))
             \o c((b[2] % 16) * 4) \o "="
        ELSE c(b[1] \div 4) \o c((b[1] % 4) * 16 + (b[2] \div 16))
             \o c((b[2] % 16) * 4 + (b[3] \div 64)) \o c(b[3] % 64)
             \o B64EncodeSeq(SubSeq(b, 4, Len(b)))

b64encode(b) == Str(B64EncodeSeq(b.val))

\* hmac.new(key, msg=msg, digestmod=sha256): an hmac.HMAC object, which is
\* not a bytes-like object
HmacNew(key, msg) == [type |-> "HMAC", key |-> key.val, msg |-> msg.val]

\* b^n modulo 251
RECURSIVE PowMod(_, _)
PowMod(b, n) ==
    IF n = 0 THEN 1
    ELSE LET h == PowMod(b, n \div 2)
         IN  (((h * h) % 251) * (IF n % 2 = 1 THEN b ELSE 1)) % 251

\* the polynomial in b with coefficients data[lo..hi], modulo 251
RECURSIVE Poly(_, _, _, _)
Poly(data, b, lo, hi) ==
    IF lo = hi THEN (data[lo] + 7) % 251
    ELSE LET mid == (lo + hi) \div 2
         IN  (Poly(data, b, lo, mid) * PowMod(b, hi - mid)
              + Poly(data, b, mid + 1, hi)) % 251

\* HMAC.digest(): 32 bytes. SHA-256 itself is abstracted by a mixing function
\* of the key and the message that is collision-free on the keys and messages
\* of the model.
HmacDigest(h) ==
    LET data == h.key \o <<256>> \o h.msg
    IN  Bytes([k \in 1..32 |-> Poly(data, k + 1, 1, Len(data))])

\* hmac.compare_digest(a, b): both str or both bytes-like, else TypeError; the
\* comparison itself is over the whole of b whatever the contents
CompareDigest(a, b) ==
    IF a.type = "bytes" /\ b.type = "bytes" THEN Ok(a.val = b.val)
    ELSE IF a.type = "str" /\ b.type = "str" THEN Ok(a.v = b.v)
    ELSE Raise("TypeError")

(***************************************************************************)
(* configparser.ConfigParser, as PhysaCIConfig uses it                     *)
(***************************************************************************)
\* _STATIC_CONFIG_FILE
STATIC_CONFIG_FILE == "/etc/opt/physaci_sub/conf.ini"

\* ConfigParser(allow_no_value=True, default_section='local')
DefaultSection == "local"
NewConfigParser == [defaults |-> EmptyDict, sections |-> EmptyDict]

\* The lines of an INI file: [section |-> name] is a "[name]" header and
\* [option |-> name, value |-> v] is "name = v", or a bare "name" when v is
\* None (allow_no_value).
SectionLine(name) == [section |-> name]
OptionLine(name, value) == [option |-> name, value |-> value]

\* RawConfigParser._read from line i on; cursect names the current section.
\* Option names go through optionxform (lower-cased); a later value of an
\* option replaces the earlier one, and a section already loaded is extended.
RECURSIVE ReadLines(_, _, _, _)
ReadLines(config, lines, i, cursect) ==
    IF i > Len(lines) THEN config
    ELSE LET line == lines[i]
         IN  IF "section" \in DOMAIN line
             THEN ReadLines(
                      IF line.section = DefaultSection
                         \/ line.section \in DOMAIN config.sections
                      THEN config
                      ELSE [config EXCEPT !.sections =
                               DictSet(@, line.section, EmptyDict)],
                      lines, i + 1, line.section)
             ELSE ReadLines(
                      IF cursect = DefaultSection
                      THEN [config EXCEPT !.defaults =
                               DictSet(@, Lower(line.option), line.value)]
                      ELSE [config EXCEPT !.sections =
                               DictSet(@, cursect,
                                   DictSet(config.sections[cursect],
                                           Lower(line.option), line.value))],
                      lines, i + 1, cursect)

\* the loop of RawConfigParser.read over filenames: a file that cannot be
\* opened is skipped, the others are parsed into config in order
RECURSIVE ReadFiles(_, _, _, _, _)
ReadFiles(config, files, filenames, i, read_ok) ==
    IF i > Len(filenames) THEN [config |-> config, read_ok |-> read_ok]
    ELSE IF filenames[i] \notin DOMAIN files
    THEN ReadFiles(config, files, filenames, i + 1, read_ok)
    ELSE ReadFiles(ReadLines(config, files[filenames[i]], 1, ""),
                   files, filenames, i + 1, Append(read_ok, filenames[i]))

\* RawConfigParser.read(filenames, encoding=None) called with the keyword
\* arguments kwargs: any other keyword is a TypeError at the call
ConfigRead(config, files, filenames, kwargs) ==
    IF kwargs \subseteq {"encoding"}
    THEN Ok(ReadFiles(config, files, filenames, 1, <<>>))
    ELSE Raise("TypeError")

\* no fallback given
UNSET == [type |-> "_UNSET"]

\* RawConfigParser.get(section, option, fallback=...): a section's options
\* are looked up in the section and then in the default section; values of
\* the model hold no '%', so interpolation leaves them as they are
ConfigGet(config, section, option, fallback) ==
    IF section # DefaultSection /\ section \notin DOMAIN config.sections
    THEN IF fallback = UNSET THEN Raise("NoSectionError") ELSE Ok(fallback)
    ELSE LET sectiondict == IF section \in DOMAIN config.sections
                            THEN config.sections[section] ELSE EmptyDict
             opt == Lower(option)
         IN  IF opt \in DOMAIN sectiondict THEN Ok(sectiondict[opt])
             ELSE IF opt \in DOMAIN config.defaults
                  THEN Ok(config.defaults[opt])
             ELSE IF fallback = UNSET THEN Raise("NoOptionError")
             ELSE Ok(fallback)

(***************************************************************************)
(* PhysaCIConfig                                                           *)
(***************************************************************************)
READ_WARNING == "Failed to read physaCI subscription info."

\* PhysaCIConfig.__init__ on the file system fs = [files, resolved], where
\* files maps the readable paths to their lines and resolved is
\* _STATIC_CONFIG_FILE.resolve(). The result is the outcome of the
\* constructor and the attributes it has set by then.
PhysaCIConfigInit(fs) ==
    LET first == ConfigRead(NewConfigParser, fs.files,
                            <<STATIC_CONFIG_FILE>>, {}).value
        config_location == ConfigGet(first.config, "local", "config_file",
                                     Path(STATIC_CONFIG_FILE)).value
    IN  IF first.read_ok = <<>>
        THEN [outcome |-> Ok(None), config |-> first.config,
              config_location |-> UNSET, warnings |-> <<READ_WARNING>>]
        ELSE IF config_location # Path(fs.resolved)
        THEN IF config_location.type \notin {"str", "Path"}
             THEN \* pathlib.Path(None)
                  [outcome |-> Raise("TypeError"), config |-> first.config,
                   config_location |-> config_location, warnings |-> <<>>]
             ELSE LET second == ConfigRead(first.config, fs.files,
                                    <<STATIC_CONFIG_FILE, config_location.v>>,
                                    {"default_section"})
                  IN  IF second.kind = "raise"
                      THEN [outcome |-> second, config |-> first.config,
                            config_location |-> config_location,
                            warnings |-> <<>>]
                      ELSE [outcome |-> Ok(None),
                            config |-> second.value.config,
                            config_location |-> config_location,
                            warnings |-> <<>>]
        ELSE [outcome |-> Ok(None), config |-> first.config,
              config_location |-> config_location, warnings |-> <<>>]

\* the node_sig_key property
node_sig_key(config) == ConfigGet(config, "node_server", "node_sig_key", UNSET)

(***************************************************************************)
(* VerifySig.verify_signature, one operator per step of the method. A      *)
(* frame holds the locals of one call; the warnings are those the method   *)
(* logs right before it returns False.                                     *)
(***************************************************************************)
NOT_HTTP_SIGNATURE == "Authorization header not an HTTP Signature."
BAD_KEYID == "Signature has missing or incorrect keyID."
BAD_ALGORITHM == "Signature uses incorrect algorithm."
SIGNATURE_MISMATCH == "Failed to validate. Signatures do not match."

\* return False after logging warning; return True
Reject(warning) == [kind |-> "return", value |-> FALSE, log |-> warning]
Accept == [kind |-> "return", value |-> TRUE, log |-> ""]

\* socket.gethostname() on the node
gethostname == "node1"

IdleFrame ==
    [pc |-> "idle", request |-> None, request_sig |-> None,
     sig_elements |-> EmptyDict, local_sig_hashed |-> None, outcome |-> None]

\* entry into verify_signature(request)
Enter(request) == [IdleFrame EXCEPT !.pc = "extract", !.request = request]

\* the call has ended with outcome
End(f, outcome) == [f EXCEPT !.pc = "done", !.outcome = outcome]

\* request.headers.get(name, default)
HeadersGet(headers, name, default) ==
    IF name \in DOMAIN headers THEN headers[name] ELSE default

\* lines 100-103
ExtractHeader(f) ==
    LET request_sig == HeadersGet(f.request.headers, "Authorization", Str(""))
    IN  IF ~StartsWith(request_sig.v, "Signature")
        THEN End([f EXCEPT !.request_sig = request_sig],
                 Reject(NOT_HTTP_SIGNATURE))
        ELSE [f EXCEPT !.request_sig = request_sig, !.pc = "parse"]

\* line 105
ParseHeader(f) ==
    [f EXCEPT !.sig_elements =
                  parse_sig_elements(Split(SliceFrom(f.request_sig.v, 10), ",")),
              !.pc = "keyid"]

\* a variant of the keyID check that lets a header without keyID through
VerifyKeyIDLenient(f) ==
    IF "keyID" \in DOMAIN f.sig_elements
       /\ f.sig_elements["keyID"] # Str(gethostname)
    THEN End(f, Reject(BAD_KEYID))
    ELSE [f EXCEPT !.pc = "algorithm"]

\* lines 108-114
VerifyKeyID(f) ==
    IF DictGet(f.sig_elements, "keyID") # Str(gethostname)
    THEN End(f, Reject(BAD_KEYID))
    ELSE [f EXCEPT !.pc = "algorithm"]

\* a variant of the algorithm check that ignores the case of the name
VerifyAlgorithmCaseless(f) ==
    IF "algorithm" \notin DOMAIN f.sig_elements
       \/ Lower(f.sig_elements["algorithm"].v) # "hmac-sha256"
    THEN End(f, Reject(BAD_ALGORITHM))
    ELSE [f EXCEPT !.pc = "hash"]

\* lines 117-122
VerifyAlgorithm(f) ==
    IF DictGet(f.sig_elements, "algorithm") # Str("hmac-sha256")
    THEN End(f, Reject(BAD_ALGORITHM))
    ELSE [f EXCEPT !.pc = "hash"]

\* lines 125-128
SigString(request) ==
    LET request_target == Lower(request.method) \o " " \o request.path
    IN  "(request-target) " \o request_target \o "\n"
        \o "host: " \o HeadersGet(request.headers, "Host", Str("")).v \o "\n"
        \o "date: " \o HeadersGet(request.headers, "Date", Str("")).v

\* lines 125-133: the key lookup may raise, and None has no encode()
HashSignature(f, config) ==
    LET key == node_sig_key(config)
    IN  IF key.kind = "raise" THEN End(f, key)
        ELSE IF key.value.type # "str" THEN End(f, Raise("AttributeError"))
        ELSE [f EXCEPT !.local_sig_hashed =
                           HmacNew(Encode(key.value.v),
                                   Encode(SigString(f.request))),
                       !.pc = "compare"]

\* lines 135-144: sig_elements['signature'], b64decode and compare_digest may
\* each raise; otherwise the comparison decides
CompareSignature(f) ==
    IF "signature" \notin DOMAIN f.sig_elements
    THEN End(f, Raise("KeyError"))
    ELSE LET decoded == b64decode(f.sig_elements["signature"])
             compare == CompareDigest(f.local_sig_hashed, decoded.value)
         IN  IF decoded.kind = "raise" THEN End(f, decoded)
             ELSE IF compare.kind = "raise" THEN End(f, compare)
             ELSE IF ~compare.value THEN End(f, Reject(SIGNATURE_MISMATCH))
             ELSE End(f, Accept)

\* one step of a call
Step(f, config) ==
    CASE f.pc = "extract" -> ExtractHeader(f)
      [] f.pc = "parse" -> ParseHeader(f)
      [] f.pc = "keyid" -> VerifyKeyID(f)
      [] f.pc = "algorithm" -> VerifyAlgorithm(f)
      [] f.pc = "hash" -> HashSignature(f, config)
      [] f.pc = "compare" -> CompareSignature(f)
      [] OTHER -> f

\* verify_signature(request) run from entry to its end with nothing else
\* running: the method has at most six steps
verify_signature(request, config) ==
    Step(Step(Step(Step(Step(Step(Enter(request), config), config), config),
         config), config), config).outcome

(***************************************************************************)
(* Inputs: configuration files and requests                                *)
(***************************************************************************)
SIGNING_KEY == "s3cr3t"
OTHER_KEY == "0th3r"
ALT_KEY == "alt-k3y"
ALT_CONFIG_FILE == "/home/pi/physaci/conf.ini"
SYMLINK_TARGET == "/srv/physaci/conf.ini"

\* what the [local] section of the static file holds
LocalOptions ==
    { <<>>,
      <<OptionLine("config_file", Str(STATIC_CONFIG_FILE))>>,
      <<OptionLine("config_file", Str(ALT_CONFIG_FILE))>>,
      <<OptionLine("config_file", None)>>,
      <<OptionLine("node_sig_key", Str(SIGNING_KEY))>> }

\* what the static file holds after its [local] section
KeyLines ==
    { <<>>,
      <<SectionLine("node_server")>>,
      <<SectionLine("node_server"),
        OptionLine("node_sig_key", Str(SIGNING_KEY))>>,
      <<SectionLine("node_server"), OptionLine("node_sig_key", None)>> }

StaticFiles == {<<SectionLine("local")>> \o l \o k : l \in LocalOptions, k \in KeyLines}

AltFile ==
    <<SectionLine("node_server"), OptionLine("node_sig_key", Str(ALT_KEY))>>

\* the static file missing or unreadable
UnreadableFS ==
    [files |-> (ALT_CONFIG_FILE :> AltFile), resolved |-> STATIC_CONFIG_FILE]

ReadableFS(static, resolved) ==
    [files |-> (STATIC_CONFIG_FILE :> static) @@ (ALT_CONFIG_FILE :> AltFile),
     resolved |-> resolved]

FileSystems ==
    {UnreadableFS} \cup
    {ReadableFS(sf, r) : sf \in StaticFiles,
                         r \in {STATIC_CONFIG_FILE, SYMLINK_TARGET}}

\* the text of a header value, empty when the header is absent
Text(h) == IF h = None THEN "" ELSE h.v

\* The signing client: base64 of HMAC-SHA256(key, canonical string), the
\* canonical string built from the lower-cased method, the path and the Host
\* and Date header values of the request being signed.
ClientSign(key, method, path, host, date) ==
    b64encode(HmacDigest(HmacNew(
        Encode(key),
        Encode("(request-target) " \o Lower(method) \o " " \o path
               \o "\nhost: " \o Text(host) \o "\ndate: " \o Text(date))))).v

\* <key>="<value>"
Element(key, value) == key \o "=\"" \o value \o "\""

RECURSIVE Join(_, _)
Join(parts, sep) ==
    IF Len(parts) = 0 THEN ""
    ELSE IF Len(parts) = 1 THEN parts[1]
    ELSE parts[1] \o sep \o Join(Tail(parts), sep)

Present(parts) == SelectSeq(parts, LAMBDA x : x # "")

MakeRequest(method, path, host, date, auth) ==
    [method |-> method, path |-> path,
     headers |->
        [n \in {m \in {"Authorization", "Host", "Date"} :
                   (CASE m = "Authorization" -> auth
                      [] m = "Host" -> host
                      [] m = "Date" -> date) # None}
         |-> CASE n = "Authorization" -> auth
               [] n = "Host" -> host
               [] n = "Date" -> date]]

\* the request line and the Host and Date headers of the base request
BaseMethod == "GET"
BasePath == "/status"
BaseHost == Str("node1")
BaseDate == Str("Tue, 01 Jan 2030 00:00:00 GMT")

\* <<method, path, Host, Date>> of the requests: the base request and the
\* requests that differ from it in one of the four (None: header absent)
RequestFields ==
    { <<BaseMethod, BasePath, BaseHost, BaseDate>>,
      <<"get", BasePath, BaseHost, BaseDate>>,
      <<"POST", BasePath, BaseHost, BaseDate>>,
      <<BaseMethod, "/run", BaseHost, BaseDate>>,
      <<BaseMethod, BasePath, None, BaseDate>>,
      <<BaseMethod, BasePath, BaseHost, Str("Wed, 02 Jan 2030 00:00:00 GMT")>> }

\* the signature the client computed for the base request
BaseSignature ==
    ClientSign(SIGNING_KEY, BaseMethod, BasePath, BaseHost, BaseDate)

KeyIDElements == {"", Element("keyID", "node1"), Element("keyID", "node2")}
AlgorithmElements ==
    {"", Element("algorithm", "hmac-sha256"), Element("algorithm", "hmac-sha1"),
     Element("algorithm", "HMAC-SHA256")}

\* the Authorization header values sent with a request of the given fields:
\* own is the signature the client computes for exactly this request
AuthHeaders(method, path, host, date) ==
    LET own == ClientSign(SIGNING_KEY, method, path, host, date)
        forged == ClientSign(OTHER_KEY, method, path, host, date)
        SignatureElements ==
            {"", Element("signature", own), Element("signature", BaseSignature),
             Element("signature", forged), Element("signature", "abc"),
             Element("signature", "YWJj")}
        good == <<Element("keyID", "node1"),
                  Element("algorithm", "hmac-sha256"),
                  Element("signature", own)>>
    IN  {Str("Signature " \o Join(Present(<<k, a, s>>), ",")) :
            k \in KeyIDElements, a \in AlgorithmElements,
            s \in SignatureElements}
        \cup
        { None,
          Str("Bearer abc"),
          Str("Signature"),
          Str("SignatureX" \o Join(good, ",")),
          Str("SignatureX" \o Join(<<Element("keyID", "node2")>> \o Tail(good), ",")),
          Str("Signature " \o Join(good, ", ")),
          Str("Signature " \o Join(<<Element("keyID", "node2")>> \o good, ",")),
          Str("Signature " \o Join(good \o <<Element("keyID", "node2")>>, ",")),
          Str("Signature " \o Join(<<good[3], good[2], good[1],
                                     Element("headers", "(request-target) host date")>>,
                                   ",")) }

Requests ==
    UNION {{MakeRequest(f[1], f[2], f[3], f[4], a) :
               a \in AuthHeaders(f[1], f[2], f[3], f[4])} : f \in RequestFields}

\* the requests of the concurrent specification
ConcRequests ==
    LET m == BaseMethod
        p == BasePath
        h == BaseHost
        d == BaseDate
        k == Element("keyID", "node1")
        a == Element("algorithm", "hmac-sha256")
        s == Element("signature", BaseSignature)
    IN  {MakeRequest(m, p, h, d, auth) :
            auth \in {None,
                      Str("Signature " \o Join(<<k, a, s>>, ",")),
                      Str("Signature " \o Join(<<Element("keyID", "node2"), a, s>>, ",")),
                      Str("Signature " \o Join(<<k, a>>, ","))}}

ConcFileSystems ==
    { UnreadableFS,
      ReadableFS(<<SectionLine("local"), SectionLine("node_server"),
                   OptionLine("node_sig_key", Str(SIGNING_KEY))>>,
                 STATIC_CONFIG_FILE),
      ReadableFS(<<SectionLine("local"), SectionLine("node_server")>>,
                 STATIC_CONFIG_FILE) }

(***************************************************************************)
(* The state machine                                                       *)
(***************************************************************************)
VARIABLES
    fs,               \* the configuration files on disk
    ctor,             \* how VerifySig() ended: pending, ok or raise
    config,           \* self.config
    config_location,  \* self.config_location
    warnings,         \* what the constructor logged
    frames            \* the locals of each thread's verify_signature call

vars == <<fs, ctor, config, config_location, warnings, frames>>

Threads == 1..NCalls

InitOn(filesystems) ==
    /\ fs \in filesystems
    /\ ctor = [kind |-> "pending"]
    /\ config = NewConfigParser
    /\ config_location = UNSET
    /\ warnings = <<>>
    /\ frames = [c \in Threads |-> IdleFrame]

Init == InitOn(FileSystems)
InitConc == InitOn(ConcFileSystems)

\* VerifySig(): PhysaCIConfig.__init__ through super().__init__()
Construct ==
    /\ ctor.kind = "pending"
    /\ LET r == PhysaCIConfigInit(fs)
       IN  /\ ctor' = r.outcome
           /\ config' = r.config
           /\ config_location' = r.config_location
           /\ warnings' = r.warnings
    /\ UNCHANGED <<fs, frames>>

\* what every call reads and no call writes
shared == <<fs, ctor, config, config_location, warnings>>

\* the request handler calls verify_signature(request) on the verifier
Call(c, requests) ==
    /\ ctor.kind = "ok"
    /\ frames[c].pc = "idle"
    /\ \E request \in requests : frames' = [frames EXCEPT ![c] = Enter(request)]
    /\ UNCHANGED shared

ExtractHeaderStep(c) ==
    /\ frames[c].pc = "extract"
    /\ frames' = [frames EXCEPT ![c] = ExtractHeader(frames[c])]
    /\ UNCHANGED shared

\* a variant of the parse step that keeps the parsed elements on the verifier,
\* where every call in progress reads them
ParseHeaderShared(c) ==
    /\ frames[c].pc = "parse"
    /\ frames' = [d \in Threads |->
                     IF d = c THEN ParseHeader(frames[c])
                     ELSE [frames[d] EXCEPT !.sig_elements =
                               ParseHeader(frames[c]).sig_elements]]
    /\ UNCHANGED shared

ParseHeaderStep(c) ==
    /\ frames[c].pc = "parse"
    /\ frames' = [frames EXCEPT ![c] = ParseHeader(frames[c])]
    /\ UNCHANGED shared

VerifyKeyIDStep(c) ==
    /\ frames[c].pc = "keyid"
    /\ frames' = [frames EXCEPT ![c] = VerifyKeyID(frames[c])]
    /\ UNCHANGED shared

VerifyAlgorithmStep(c) ==
    /\ frames[c].pc = "algorithm"
    /\ frames' = [frames EXCEPT ![c] = VerifyAlgorithm(frames[c])]
    /\ UNCHANGED shared

HashSignatureStep(c) ==
    /\ frames[c].pc = "hash"
    /\ frames' = [frames EXCEPT ![c] = HashSignature(frames[c], config)]
    /\ UNCHANGED shared

CompareSignatureStep(c) ==
    /\ frames[c].pc = "compare"
    /\ frames' = [frames EXCEPT ![c] = CompareSignature(frames[c])]
    /\ UNCHANGED shared

\* the call has ended (returned or raised) and the thread is free for its
\* next request
Finish(c) ==
    /\ frames[c].pc = "done"
    /\ frames' = [frames EXCEPT ![c] = IdleFrame]
    /\ UNCHANGED shared

Thread(c, requests) ==
    \/ Call(c, requests)
    \/ ExtractHeaderStep(c)
    \/ ParseHeaderStep(c)
    \/ VerifyKeyIDStep(c)
    \/ VerifyAlgorithmStep(c)
    \/ HashSignatureStep(c)
    \/ CompareSignatureStep(c)
    \/ Finish(c)

\* one request at a time
Next == Construct \/ Thread(1, Requests)
Spec == Init /\ [][Next]_vars

\* NCalls requests at a time
NextConc == Construct \/ \E c \in Threads : Thread(c, ConcRequests)
SpecConc == InitConc /\ [][NextConc]_vars

(***************************************************************************)
(* Properties                                                              *)
(***************************************************************************)
Done(c) == frames[c].pc = "done"
Outcome(c) == frames[c].outcome

\* the Authorization header value of a request, empty when absent
Auth(request) == HeadersGet(request.headers, "Authorization", Str("")).v

\* the parameters the verifier parses out of the request's header
Parsed(request) ==
    parse_sig_elements(Split(SliceFrom(Auth(request), 10), ","))

\* the configured signing key is k
KeyIs(k) == node_sig_key(config) = Ok(Str(k))

\* Signature keyID="<local hostname>",algorithm="hmac-sha256",signature="<sig>"
SignedHeader(sig) ==
    "Signature " \o Join(<<Element("keyID", gethostname),
                           Element("algorithm", "hmac-sha256"),
                           Element("signature", sig)>>, ",")

\* what the client signs with key for this very request
OwnSignature(key, request) ==
    ClientSign(key, request.method, request.path,
               HeadersGet(request.headers, "Host", None),
               HeadersGet(request.headers, "Date", None))

\* the request passes the header, keyID and algorithm checks
ReachesDigest(request) ==
    /\ StartsWith(Auth(request), "Signature")
    /\ DictGet(Parsed(request), "keyID") = Str(gethostname)
    /\ DictGet(Parsed(request), "algorithm") = Str("hmac-sha256")

\* C1: a request whose Authorization header is the Signature header with the
\* local hostname as keyID, hmac-sha256 and the base64 HMAC-SHA256, under the
\* configured key, of the canonical string of that same request is accepted:
\* verify_signature returns True.
C1_SignedRequestAccepted ==
    \A c \in Threads :
        (/\ Done(c)
         /\ KeyIs(SIGNING_KEY)
         /\ Auth(frames[c].request)
                = SignedHeader(OwnSignature(SIGNING_KEY, frames[c].request)))
        => Outcome(c) = Accept

\* C2: a request with a Signature header whose parsed keyID is absent or is
\* not the local hostname ends in the bad-keyID rejection, whatever the
\* algorithm, the signature and the configured key are, and the key has not
\* been looked up by then.
C2_BadKeyIDRejected ==
    \A c \in Threads :
        (/\ Done(c)
         /\ StartsWith(Auth(frames[c].request), "Signature")
         /\ DictGet(Parsed(frames[c].request), "keyID") # Str(gethostname))
        => /\ Outcome(c) = Reject(BAD_KEYID)
           /\ frames[c].local_sig_hashed = None

\* a request signed correctly for itself under the configured key, except that
\* its keyID names another host, has been rejected for its keyID
C2_Witness ==
    \E c \in Threads :
        /\ Done(c)
        /\ KeyIs(SIGNING_KEY)
        /\ Auth(frames[c].request)
               = "Signature " \o Join(<<Element("keyID", "node2"),
                     Element("algorithm", "hmac-sha256"),
                     Element("signature",
                             OwnSignature(SIGNING_KEY, frames[c].request))>>, ",")
        /\ Outcome(c) = Reject(BAD_KEYID)

\* C3 as stated: a request whose parsed algorithm is absent or is not exactly
\* hmac-sha256 ends in the bad-algorithm rejection.
C3_BadAlgorithmRejected ==
    \A c \in Threads :
        (/\ Done(c)
         /\ StartsWith(Auth(frames[c].request), "Signature")
         /\ DictGet(Parsed(frames[c].request), "algorithm") # Str("hmac-sha256"))
        => Outcome(c) = Reject(BAD_ALGORITHM)

\* C3 amended: a request whose parsed keyID is the local hostname and whose
\* parsed algorithm is absent or is not exactly hmac-sha256 ends in the
\* bad-algorithm rejection.
C3_BadAlgorithmRejectedAfterKeyID ==
    \A c \in Threads :
        (/\ Done(c)
         /\ StartsWith(Auth(frames[c].request), "Signature")
         /\ DictGet(Parsed(frames[c].request), "keyID") = Str(gethostname)
         /\ DictGet(Parsed(frames[c].request), "algorithm") # Str("hmac-sha256"))
        => Outcome(c) = Reject(BAD_ALGORITHM)

\* a request with the right keyID and the algorithm spelled HMAC-SHA256 has
\* been rejected for its algorithm
C3_Witness ==
    \E c \in Threads :
        /\ Done(c)
        /\ DictGet(Parsed(frames[c].request), "keyID") = Str(gethostname)
        /\ DictGet(Parsed(frames[c].request), "algorithm") = Str("HMAC-SHA256")
        /\ Outcome(c) = Reject(BAD_ALGORITHM)

\* C4: a request that carries the Authorization header of the correctly
\* signed base request but differs from the base request in one of method,
\* path, Host and Date ends in the signature-mismatch rejection.
C4_TamperedRequestMismatch ==
    \A c \in Threads :
        LET r == frames[c].request
            differing ==
                {k \in 1..4 :
                    <<r.method, r.path, HeadersGet(r.headers, "Host", None),
                      HeadersGet(r.headers, "Date", None)>>[k]
                    # <<BaseMethod, BasePath, BaseHost, BaseDate>>[k]}
        IN  (/\ Done(c)
             /\ KeyIs(SIGNING_KEY)
             /\ Auth(r) = SignedHeader(BaseSignature)
             /\ Cardinality(differing) = 1)
            => Outcome(c) = Reject(SIGNATURE_MISMATCH)

\* the header value begins with the scheme Signature and a separator
HasSchemePrefix(auth) ==
    /\ StartsWith(auth, "Signature")
    /\ Len(auth) >= 10
    /\ Ch(auth, 10) = " "

\* C5: a request whose Authorization header is missing or does not begin
\* with Signature followed by a separator ends in the not-an-HTTP-signature
\* rejection, with no parameter parsed.
C5_WrongSchemeRejected ==
    \A c \in Threads :
        (Done(c) /\ ~HasSchemePrefix(Auth(frames[c].request)))
        => /\ Outcome(c) = Reject(NOT_HTTP_SIGNATURE)
           /\ frames[c].sig_elements = EmptyDict

\* C6: with a signing key configured no call raises: every call returns, and
\* it returns False when the signature parameter is absent or is not
\* decodable base64.
C6_MalformedInputRejected ==
    \A c \in Threads :
        (Done(c) /\ KeyIs(SIGNING_KEY))
        => /\ Outcome(c).kind = "return"
           /\ (\/ "signature" \notin DOMAIN Parsed(frames[c].request)
               \/ b64decode(Parsed(frames[c].request)["signature"]).kind = "raise")
              => Outcome(c).value = FALSE

\* C7: on a verifier built from an unreadable configuration file, or from one
\* that defines no usable node_sig_key, a call that gets to the digest step
\* returns False: it neither accepts nor raises.
C7_MissingKeyFailsClosed ==
    \A c \in Threads :
        (/\ Done(c)
         /\ ReachesDigest(frames[c].request)
         /\ \/ node_sig_key(config).kind = "raise"
            \/ node_sig_key(config).value.type # "str")
        => /\ Outcome(c).kind = "return"
           /\ Outcome(c).value = FALSE

\* C8: a call that gets to the comparison with a signature that decodes to a
\* number of bytes other than the 32 of the digest ends in the
\* signature-mismatch rejection.
C8_LengthMismatchRejected ==
    \A c \in Threads :
        LET sig_elements == Parsed(frames[c].request)
        IN  (/\ Done(c)
             /\ KeyIs(SIGNING_KEY)
             /\ ReachesDigest(frames[c].request)
             /\ "signature" \in DOMAIN sig_elements
             /\ b64decode(sig_elements["signature"]).kind = "ok"
             /\ Len(b64decode(sig_elements["signature"]).value.val) # 32)
            => Outcome(c) = Reject(SIGNATURE_MISMATCH)

\* what the static file alone declares as [local] config_file
Undeclared == [type |-> "undeclared"]
DeclaredConfigFile ==
    ConfigGet(ReadFiles(NewConfigParser, fs.files, <<STATIC_CONFIG_FILE>>,
                        1, <<>>).config,
              "local", "config_file", Undeclared).value

\* the configuration after reading the given files in order
ConfigOf(filenames) ==
    ReadFiles(NewConfigParser, fs.files, filenames, 1, <<>>).config

\* C9: with a readable static file, which is no symbolic link, that declares a
\* config_file other than the static path, construction completes and the configuration is the
\* static file merged with the alternate file, the alternate file's values
\* winning; with no config_file declared, or the static path declared, it
\* completes with the configuration of the static file alone.
C9_AlternateFileMerged ==
    (ctor.kind # "pending" /\ STATIC_CONFIG_FILE \in DOMAIN fs.files
     /\ fs.resolved = STATIC_CONFIG_FILE
     /\ DeclaredConfigFile.type \in {"str", "undeclared"})
    => IF DeclaredConfigFile.type = "str"
          /\ DeclaredConfigFile.v # fs.resolved
       THEN /\ ctor.kind = "ok"
            /\ config = ConfigOf(<<STATIC_CONFIG_FILE, DeclaredConfigFile.v>>)
            /\ node_sig_key(config) = Ok(Str(ALT_KEY))
       ELSE /\ ctor.kind = "ok"
            /\ config = ConfigOf(<<STATIC_CONFIG_FILE>>)

\* C10: once the verifier is constructed no step changes the configuration,
\* so a key lookup gives the same result before and after every step, and a
\* call that has ended among concurrent calls has the outcome that
\* verify_signature has on its request when run alone.
C10_CallsIndependent ==
    /\ [](\A c \in Threads :
            Done(c) => Outcome(c) = verify_signature(frames[c].request, config))
    /\ [][ctor.kind # "pending"
            => /\ UNCHANGED shared
               /\ node_sig_key(config') = node_sig_key(config)]_vars

\* two calls on different requests have ended side by side with different
\* outcomes
C10_Witness ==
    \E c, d \in Threads :
        /\ c # d
        /\ Done(c) /\ Done(d)
        /\ frames[c].request # frames[d].request
        /\ Outcome(c) # Outcome(d)

====
